---------------------------- MODULE Spec2Model ----------------------------
(***************************************************************************)
(* Model of src/main.py: a FastAPI service with signup/login, token-gated  *)
(* post creation, listing and deletion, and a process-wide                 *)
(* cachetools.TTLCache in front of the post listing.                       *)
(*                                                                         *)
(* The endpoints are plain `def` functions, so FastAPI runs them on a      *)
(* thread pool: several requests are in flight at once.  Every handler is  *)
(* split at its accesses to shared state (one database statement or one    *)
(* cache operation per step); each step is one action.  The arrival of a   *)
(* request is folded into its first step.  The cache operations            *)
(* (`in`, `[]`, `[]=`) are taken at the granularity main.py calls them.    *)
(***************************************************************************)
EXTENDS Integers, Sequences, FiniteSets, TLC

(***************************************************************************)
(* Bounds of the model and program constants.                              *)
(***************************************************************************)
\* TTLCache(maxsize=100, ttl=300): the time-to-live, in seconds.
ttl == 300
\* TTLCache(maxsize=100, ttl=300): the capacity.  The model runs the cache
\* at a capacity scaled down from 100 so that three tokens overfill it and
\* the order of eviction shows; every formula refers to the capacity by this
\* name only.
maxsize == 2
\* Post.created_at has default=int(time.time()), evaluated once when the
\* class body runs at import; the clock of the model starts at import.
ImportTime == 0
\* The clock stops advancing at MaxTime.
MaxTime == 300
\* At most MaxPosts posts are ever created.
MaxPosts == 1

Threads == {"w1", "w2"}
\* The emails and passwords clients sign up and log in with.
Emails == {"a@x.io", "b@x.io"}
Passwords == {"secret1", "secret2"}
\* The values secrets.token_hex(16) may return.
TokenValues == {"t1", "t2"}
\* What a client may present as a token: a value of the generator, a value
\* it never returns, or the empty string.
PresentedTokens == {"t1", "t2", "t3", ""}
Salts == {"s1"}
Texts == {"hello"}
TickSteps == {150}

VARIABLES
    users,      \* the users table: sequence of rows, in id order
    posts,      \* the posts table: sequence of rows, in id order
    nextPostId, \* the autoincrement counter of posts.id
    cache,      \* the TTLCache: sequence of entries, least recently used first
    now,        \* the clock, in whole seconds since import
    req,        \* the request each worker thread is serving, with its locals
    h_on,       \* history: whether this specification records history
    h_writes,   \* history: the committed creates and deletes
    h_entry,    \* history: per cache key, nextPostId when its entry was put
    h_req       \* history: per thread, about the listing it serves or served

hist == <<h_on, h_writes, h_entry, h_req>>
vars == <<users, posts, nextPostId, cache, now, req, h_on, h_writes, h_entry, h_req>>

Range(s) == {s[i] : i \in 1..Len(s)}

(***************************************************************************)
(* Password hashing (passlib bcrypt): a salted one-way digest.             *)
(***************************************************************************)
Digest(salt, plain) == <<"bcrypt", salt, plain>>

hash_password(password, salt) ==
    [salt |-> salt, digest |-> Digest(salt, password)]

verify_password(plain_password, hashed_password) ==
    hashed_password.digest = Digest(hashed_password.salt, plain_password)

(***************************************************************************)
(* Database queries.                                                       *)
(***************************************************************************)
NoUser == 0

\* db.query(User).filter(User.email == email).first()
UserByEmail(email) ==
    IF \E i \in 1..Len(users) : users[i].email = email
    THEN users[CHOOSE i \in 1..Len(users) : users[i].email = email]
    ELSE [id |-> NoUser]

\* db.query(User).filter(User.token == token).first()
get_user_by_token(token) ==
    IF \E i \in 1..Len(users) : users[i].token = token
    THEN users[CHOOSE i \in 1..Len(users) : users[i].token = token].id
    ELSE NoUser

\* Mutant: the listing query without its owner filter.
PostsOfAnyone(user_id) ==
    posts

\* db.query(Post).filter(Post.user_id == user_id).all()
PostsOfUser(user_id) ==
    SelectSeq(posts, LAMBDA p : p.user_id = user_id)

\* Mutant: the deletion lookup by id alone.
PostById(post_id, user_id) ==
    \E i \in 1..Len(posts) : posts[i].id = post_id

\* db.query(Post).filter(Post.id == post_id, Post.user_id == user_id).first()
PostOfUser(post_id, user_id) ==
    \E i \in 1..Len(posts) : posts[i].id = post_id /\ posts[i].user_id = user_id

(***************************************************************************)
(* cachetools.TTLCache, as used by main.py.                                *)
(***************************************************************************)
CacheKeys(c) == {c[i].key : i \in 1..Len(c)}

\* Mutant: an entry still counts as fresh at its expiry time.
CacheContainsLate(c, key, time) ==
    \E i \in 1..Len(c) : c[i].key = key /\ time <= c[i].expires

\* Mutant: an entry counts as present whatever its expiry time.
CacheContainsStale(c, key, time) ==
    \E i \in 1..Len(c) : c[i].key = key

\* `key in cache`: the entry is present and time < expires.
CacheContains(c, key, time) ==
    \E i \in 1..Len(c) : c[i].key = key /\ time < c[i].expires

CacheEntry(c, key) ==
    c[CHOOSE i \in 1..Len(c) : c[i].key = key]

CacheRemove(c, key) ==
    SelectSeq(c, LAMBDA e : e.key # key)

\* `cache[key]` on an entry that is present and fresh: the entry becomes the
\* most recently used one.
CacheTouch(c, key) ==
    Append(CacheRemove(c, key), CacheEntry(c, key))

\* TTLCache.expire(time): drops every entry with expires <= time.
CacheExpire(c, time) ==
    SelectSeq(c, LAMBDA e : time < e.expires)

\* Mutant: a full cache is never evicted from.
CacheEvictNever(c, key) ==
    c

\* Mutant: a full cache is emptied to make room for a new key.
CacheEvictAll(c, key) ==
    IF key \notin CacheKeys(c) /\ Len(c) + 1 > maxsize
    THEN <<>>
    ELSE c

\* Cache.__setitem__ for a new key: popitem() while the cache is full.
CacheEvict(c, key) ==
    IF key \notin CacheKeys(c) /\ Len(c) + 1 > maxsize
    THEN Tail(c)
    ELSE c

\* `cache[key] = value`: expire, evict for capacity, insert or overwrite
\* with expires = time + ttl, as the most recently used entry.
CacheSetitem(c, key, value, time) ==
    Append(CacheRemove(CacheEvict(CacheExpire(c, time), key), key),
           [key |-> key, value |-> value, expires |-> time + ttl])

(***************************************************************************)
(* Requests.                                                               *)
(***************************************************************************)
NoResp == [status |-> 0, detail |-> "", token |-> "", postID |-> 0, posts |-> <<>>]

Idle == [op |-> "none", pc |-> "idle", email |-> "", password |-> "",
         token |-> "", text |-> "", post_id |-> 0,
         user |-> NoUser, posts |-> <<>>, resp |-> NoResp]

Free(t) == req[t].pc \in {"idle", "done"}

\* The handler returns or raises: its locals die, the response is kept.
Done(r, resp) == [r EXCEPT !.pc = "done", !.user = NoUser, !.posts = <<>>, !.resp = resp]

HTTPException(status, detail) == [NoResp EXCEPT !.status = status, !.detail = detail]

\* An exception that is no HTTPException (KeyError, SQLAlchemyError)
\* reaches the client as 500 Internal Server Error.
ServerError == [NoResp EXCEPT !.status = 500, !.detail = "Internal Server Error"]

(***************************************************************************)
(* History variables.  They record what the program does and never        *)
(* influence it.                                                           *)
(*   h_req[t].start, .seen: the clock and nextPostId when the listing of   *)
(*     thread t arrived (kept while it is in flight);                      *)
(*   h_req[t].how: "hit" or "miss" once the listing is answered; "found"   *)
(*     or "absent" once a deletion has looked its post id up;              *)
(*   h_req[t].stale: it was answered from an entry put before a post of    *)
(*     its account was created;                                            *)
(*   h_req[t].old: it arrived at least ttl after a write of its account    *)
(*     that raced with no listing;                                         *)
(*   a write's hidden: the expiry of the entry resident for its account    *)
(*     when it was committed (0 if none); raced: a listing of its account  *)
(*     was between its store query and its cache put at that moment.       *)
(***************************************************************************)
NoStamp == [start |-> 0, seen |-> 0, how |-> "", stale |-> FALSE, old |-> FALSE]

Record(x, off) == IF h_on THEN x ELSE off

PostIds(s) == {s[i].id : i \in 1..Len(s)}

Creates(user) == {w \in h_writes : w.kind = "create" /\ w.user_id = user}

\* The write w shows in the listing s: a created post is listed unless it
\* has been deleted since, a deleted post is not listed.
Reflected(w, s) ==
    IF w.kind = "create"
    THEN w.id \in PostIds(s) \/ (\E d \in h_writes : d.kind = "delete" /\ d.id = w.id)
    ELSE w.id \notin PostIds(s)

\* The writes of the account that a listing arrived at `start` must show
\* if staleness is bounded by one ttl.
OldWrites(user, start) ==
    {w \in h_writes : w.user_id = user /\ w.at + ttl <= start}

Raced(user) == \E u \in Threads : req[u].pc = "get_setitem" /\ req[u].user = user

Init ==
    /\ users = <<>>
    /\ posts = <<>>
    /\ nextPostId = 1
    /\ cache = <<>>
    /\ now = ImportTime
    /\ req = [t \in Threads |-> Idle]
    /\ h_on = FALSE
    /\ h_writes = {}
    /\ h_entry = [k \in PresentedTokens |-> 0]
    /\ h_req = [t \in Threads |-> NoStamp]

(***************************************************************************)
(* POST /signup                                                            *)
(***************************************************************************)
\* Mutant: signup without the lookup of the email.
signup_nocheck(t, email, password) ==
    /\ Free(t)
    /\ req' = [req EXCEPT ![t] =
            [Idle EXCEPT !.op = "signup", !.email = email, !.password = password,
                         !.pc = "signup_commit"]]
    /\ h_req' = [h_req EXCEPT ![t] = NoStamp]
    /\ UNCHANGED <<users, posts, nextPostId, cache, now, h_on, h_writes, h_entry>>

\* lines 136-138: look the email up, reject a registered one.
signup(t, email, password) ==
    /\ Free(t)
    /\ LET r == [Idle EXCEPT !.op = "signup", !.email = email, !.password = password]
       IN  req' = [req EXCEPT ![t] =
                IF UserByEmail(email).id # NoUser
                THEN Done(r, HTTPException(400, "Email already registered"))
                ELSE [r EXCEPT !.pc = "signup_commit"]]
    /\ h_req' = [h_req EXCEPT ![t] = NoStamp]
    /\ UNCHANGED <<users, posts, nextPostId, cache, now, h_on, h_writes, h_entry>>

\* Mutant: users.token carries no UNIQUE constraint.
signup_commit_anytoken(t, token, salt) ==
    /\ req[t].pc = "signup_commit"
    /\ IF \E i \in 1..Len(users) : users[i].email = req[t].email
       THEN /\ req' = [req EXCEPT ![t] = Done(req[t], ServerError)]
            /\ UNCHANGED users
       ELSE /\ users' = Append(users,
                    [id |-> Len(users) + 1, email |-> req[t].email,
                     password |-> hash_password(req[t].password, salt),
                     token |-> token])
            /\ req' = [req EXCEPT ![t] =
                    Done(req[t], [NoResp EXCEPT !.status = 200, !.token = token])]
    /\ UNCHANGED <<posts, nextPostId, cache, now, hist>>

\* lines 139-143: hash, draw a token, insert and commit.  users.email and
\* users.token are UNIQUE: a duplicate makes the commit raise IntegrityError,
\* which get_db rolls back and re-raises.
signup_commit(t, token, salt) ==
    /\ req[t].pc = "signup_commit"
    /\ IF \E i \in 1..Len(users) :
              users[i].email = req[t].email \/ users[i].token = token
       THEN /\ req' = [req EXCEPT ![t] = Done(req[t], ServerError)]
            /\ UNCHANGED users
       ELSE /\ users' = Append(users,
                    [id |-> Len(users) + 1, email |-> req[t].email,
                     password |-> hash_password(req[t].password, salt),
                     token |-> token])
            /\ req' = [req EXCEPT ![t] =
                    Done(req[t], [NoResp EXCEPT !.status = 200, !.token = token])]
    /\ UNCHANGED <<posts, nextPostId, cache, now, hist>>

(***************************************************************************)
(* POST /login                                                             *)
(***************************************************************************)
\* Mutant: login takes the first row of the table, whatever the email.
login_first(t, email, password) ==
    /\ Free(t)
    /\ LET r == [Idle EXCEPT !.op = "login", !.email = email, !.password = password]
           db_user == IF users = <<>> THEN [id |-> NoUser] ELSE users[1]
       IN  req' = [req EXCEPT ![t] =
                IF db_user.id = NoUser \/ ~verify_password(password, db_user.password)
                THEN Done(r, HTTPException(400, "Invalid credentials"))
                ELSE Done(r, [NoResp EXCEPT !.status = 200, !.token = db_user.token])]
    /\ h_req' = [h_req EXCEPT ![t] = NoStamp]
    /\ UNCHANGED <<users, posts, nextPostId, cache, now, h_on, h_writes, h_entry>>

\* Mutant: login tells an unknown email from a wrong password.
login_reveal(t, email, password) ==
    /\ Free(t)
    /\ LET r == [Idle EXCEPT !.op = "login", !.email = email, !.password = password]
           db_user == UserByEmail(email)
       IN  req' = [req EXCEPT ![t] =
                IF db_user.id = NoUser
                THEN Done(r, HTTPException(404, "User not found"))
                ELSE IF ~verify_password(password, db_user.password)
                THEN Done(r, HTTPException(400, "Invalid credentials"))
                ELSE Done(r, [NoResp EXCEPT !.status = 200, !.token = db_user.token])]
    /\ h_req' = [h_req EXCEPT ![t] = NoStamp]
    /\ UNCHANGED <<users, posts, nextPostId, cache, now, h_on, h_writes, h_entry>>

login(t, email, password) ==
    /\ Free(t)
    /\ LET r == [Idle EXCEPT !.op = "login", !.email = email, !.password = password]
           db_user == UserByEmail(email)
       IN  req' = [req EXCEPT ![t] =
                IF db_user.id = NoUser \/ ~verify_password(password, db_user.password)
                THEN Done(r, HTTPException(400, "Invalid credentials"))
                ELSE Done(r, [NoResp EXCEPT !.status = 200, !.token = db_user.token])]
    /\ h_req' = [h_req EXCEPT ![t] = NoStamp]
    /\ UNCHANGED <<users, posts, nextPostId, cache, now, h_on, h_writes, h_entry>>

(***************************************************************************)
(* The token gate, first step of the three protected endpoints.            *)
(***************************************************************************)
\* Mutant: only a non-empty token is looked up.
AuthenticateLax(r, next) ==
    LET user == get_user_by_token(r.token)
    IN  IF user = NoUser /\ r.token # ""
        THEN Done(r, HTTPException(401, "Invalid or missing token"))
        ELSE [r EXCEPT !.pc = next, !.user = user]

Authenticate(r, next) ==
    LET user == get_user_by_token(r.token)
    IN  IF user = NoUser
        THEN Done(r, HTTPException(401, "Invalid or missing token"))
        ELSE [r EXCEPT !.pc = next, !.user = user]

(***************************************************************************)
(* POST /addpost                                                           *)
(***************************************************************************)
\* lines 166-168
add_post(t, token, text) ==
    /\ Free(t)
    /\ nextPostId + Cardinality({u \in Threads : req[u].pc = "add_commit"}) <= MaxPosts
    /\ req' = [req EXCEPT ![t] =
            Authenticate([Idle EXCEPT !.op = "add_post", !.token = token, !.text = text],
                         "add_commit")]
    /\ h_req' = [h_req EXCEPT ![t] = NoStamp]
    /\ UNCHANGED <<users, posts, nextPostId, cache, now, h_on, h_writes, h_entry>>

\* Mutant: the commit of a post invalidates the cache entry of its token.
add_commit_invalidate(t) ==
    /\ req[t].pc = "add_commit"
    /\ posts' = Append(posts, [id |-> nextPostId, text |-> req[t].text,
                               user_id |-> req[t].user, created_at |-> ImportTime])
    /\ nextPostId' = nextPostId + 1
    /\ cache' = CacheRemove(cache, req[t].token)
    /\ req' = [req EXCEPT ![t] =
            Done(req[t], [NoResp EXCEPT !.status = 200, !.postID = nextPostId])]
    /\ h_writes' = Record(h_writes \cup
            {[kind |-> "create", id |-> nextPostId, user_id |-> req[t].user, at |-> now,
              hidden |-> IF req[t].token \in CacheKeys(cache)
                         THEN CacheEntry(cache, req[t].token).expires ELSE 0,
              raced |-> Raced(req[t].user)]}, h_writes)
    /\ UNCHANGED <<users, now, h_on, h_entry, h_req>>

\* Mutant: the commit of a post appends it to the cache entry of its token.
add_commit_writethrough(t) ==
    /\ req[t].pc = "add_commit"
    /\ posts' = Append(posts, [id |-> nextPostId, text |-> req[t].text,
                               user_id |-> req[t].user, created_at |-> ImportTime])
    /\ nextPostId' = nextPostId + 1
    /\ cache' = [i \in 1..Len(cache) |->
            IF cache[i].key = req[t].token
            THEN [cache[i] EXCEPT !.value = Append(@, posts'[Len(posts')])]
            ELSE cache[i]]
    /\ req' = [req EXCEPT ![t] =
            Done(req[t], [NoResp EXCEPT !.status = 200, !.postID = nextPostId])]
    /\ h_writes' = Record(h_writes \cup
            {[kind |-> "create", id |-> nextPostId, user_id |-> req[t].user, at |-> now,
              hidden |-> IF req[t].token \in CacheKeys(cache)
                         THEN CacheEntry(cache, req[t].token).expires ELSE 0,
              raced |-> Raced(req[t].user)]}, h_writes)
    /\ UNCHANGED <<users, now, h_on, h_entry, h_req>>

\* lines 169-172: created_at is left to the column default.
add_commit(t) ==
    /\ req[t].pc = "add_commit"
    /\ posts' = Append(posts, [id |-> nextPostId, text |-> req[t].text,
                               user_id |-> req[t].user, created_at |-> ImportTime])
    /\ nextPostId' = nextPostId + 1
    /\ req' = [req EXCEPT ![t] =
            Done(req[t], [NoResp EXCEPT !.status = 200, !.postID = nextPostId])]
    /\ h_writes' = Record(h_writes \cup
            {[kind |-> "create", id |-> nextPostId, user_id |-> req[t].user, at |-> now,
              hidden |-> IF req[t].token \in CacheKeys(cache)
                         THEN CacheEntry(cache, req[t].token).expires ELSE 0,
              raced |-> Raced(req[t].user)]}, h_writes)
    /\ UNCHANGED <<users, cache, now, h_on, h_entry, h_req>>

(***************************************************************************)
(* GET /getposts                                                           *)
(***************************************************************************)
\* lines 182-184
get_posts(t, token) ==
    /\ Free(t)
    /\ req' = [req EXCEPT ![t] =
            Authenticate([Idle EXCEPT !.op = "get_posts", !.token = token],
                         "get_contains")]
    /\ h_req' = [h_req EXCEPT ![t] =
            IF req'[t].pc = "done" THEN NoStamp
            ELSE Record([NoStamp EXCEPT !.start = now, !.seen = nextPostId], NoStamp)]
    /\ UNCHANGED <<users, posts, nextPostId, cache, now, h_on, h_writes, h_entry>>

\* line 187: `if token in cache`
get_contains(t) ==
    /\ req[t].pc = "get_contains"
    /\ req' = [req EXCEPT ![t].pc =
            IF CacheContains(cache, req[t].token, now)
            THEN "get_getitem" ELSE "get_query"]
    /\ UNCHANGED <<users, posts, nextPostId, cache, now, hist>>

\* Mutant: a read renews the entry's time to live.
get_getitem_renew(t) ==
    /\ req[t].pc = "get_getitem"
    /\ IF CacheContains(cache, req[t].token, now)
       THEN /\ req' = [req EXCEPT ![t] =
                    Done(req[t], [NoResp EXCEPT !.status = 200,
                                  !.posts = CacheEntry(cache, req[t].token).value])]
            /\ cache' = Append(CacheRemove(cache, req[t].token),
                    [CacheEntry(cache, req[t].token) EXCEPT !.expires = now + ttl])
            /\ h_req' = [h_req EXCEPT ![t] = [NoStamp EXCEPT !.how = "hit"]]
       ELSE /\ req' = [req EXCEPT ![t] = Done(req[t], ServerError)]
            /\ h_req' = [h_req EXCEPT ![t] = NoStamp]
            /\ UNCHANGED cache
    /\ UNCHANGED <<users, posts, nextPostId, now, h_on, h_writes, h_entry>>

\* line 188: `return cache[token]`; TTLCache.__getitem__ raises KeyError
\* for a key that is absent or expired by now.
get_getitem(t) ==
    /\ req[t].pc = "get_getitem"
    /\ IF CacheContains(cache, req[t].token, now)
       THEN /\ req' = [req EXCEPT ![t] =
                    Done(req[t], [NoResp EXCEPT !.status = 200,
                                  !.posts = CacheEntry(cache, req[t].token).value])]
            /\ cache' = CacheTouch(cache, req[t].token)
            /\ h_req' = [h_req EXCEPT ![t] =
                    [NoStamp EXCEPT
                        !.how = "hit",
                        !.stale = \E w \in Creates(req[t].user) :
                                     h_entry[req[t].token] <= w.id,
                        !.old = \E w \in OldWrites(req[t].user, h_req[t].start) :
                                     ~w.raced]]
       ELSE /\ req' = [req EXCEPT ![t] = Done(req[t], ServerError)]
            /\ h_req' = [h_req EXCEPT ![t] = NoStamp]
            /\ UNCHANGED cache
    /\ UNCHANGED <<users, posts, nextPostId, now, h_on, h_writes, h_entry>>

\* line 190
get_query(t) ==
    /\ req[t].pc = "get_query"
    /\ req' = [req EXCEPT ![t].pc = "get_setitem",
                          ![t].posts = PostsOfUser(req[t].user)]
    /\ UNCHANGED <<users, posts, nextPostId, cache, now, hist>>

\* Mutant: every listing is cached under one key, whatever its token.
get_setitem_onekey(t) ==
    /\ req[t].pc = "get_setitem"
    /\ cache' = CacheSetitem(cache, "t1", req[t].posts, now)
    /\ req' = [req EXCEPT ![t] =
            Done(req[t], [NoResp EXCEPT !.status = 200, !.posts = req[t].posts])]
    /\ h_req' = [h_req EXCEPT ![t] = [NoStamp EXCEPT !.how = "miss"]]
    /\ UNCHANGED <<users, posts, nextPostId, now, h_on, h_writes, h_entry>>

\* lines 193-194
get_setitem(t) ==
    /\ req[t].pc = "get_setitem"
    /\ cache' = CacheSetitem(cache, req[t].token, req[t].posts, now)
    /\ req' = [req EXCEPT ![t] =
            Done(req[t], [NoResp EXCEPT !.status = 200, !.posts = req[t].posts])]
    /\ h_entry' = Record([k \in PresentedTokens |->
            IF k = req[t].token THEN nextPostId
            ELSE IF k \in CacheKeys(cache') THEN h_entry[k] ELSE 0], h_entry)
    /\ h_req' = [h_req EXCEPT ![t] =
            [NoStamp EXCEPT
                !.how = "miss",
                !.old = \E w \in OldWrites(req[t].user, h_req[t].start) : ~w.raced]]
    /\ UNCHANGED <<users, posts, nextPostId, now, h_on, h_writes>>

(***************************************************************************)
(* DELETE /deletepost/{post_id}                                            *)
(***************************************************************************)
\* lines 203-205
delete_post(t, post_id, token) ==
    /\ Free(t)
    /\ req' = [req EXCEPT ![t] =
            Authenticate([Idle EXCEPT !.op = "delete_post", !.token = token,
                                      !.post_id = post_id],
                         "delete_query")]
    /\ h_req' = [h_req EXCEPT ![t] = NoStamp]
    /\ UNCHANGED <<users, posts, nextPostId, cache, now, h_on, h_writes, h_entry>>

\* lines 206-208
delete_query(t) ==
    /\ req[t].pc = "delete_query"
    /\ req' = [req EXCEPT ![t] =
            IF PostOfUser(req[t].post_id, req[t].user)
            THEN [req[t] EXCEPT !.pc = "delete_commit"]
            ELSE Done(req[t], HTTPException(404, "Post not found"))]
    /\ h_req' = [h_req EXCEPT ![t].how =
            IF req[t].post_id \in PostIds(posts) THEN "found" ELSE "absent"]
    /\ UNCHANGED <<users, posts, nextPostId, cache, now, h_on, h_writes, h_entry>>

\* lines 209-211: the DELETE matches no row when a concurrent request has
\* deleted the post since the query; the flush then raises StaleDataError.
delete_commit(t) ==
    /\ req[t].pc = "delete_commit"
    /\ IF \E i \in 1..Len(posts) : posts[i].id = req[t].post_id
       THEN /\ posts' = SelectSeq(posts, LAMBDA p : p.id # req[t].post_id)
            /\ req' = [req EXCEPT ![t] =
                    Done(req[t], [NoResp EXCEPT !.status = 200, !.detail = "Post deleted"])]
            /\ h_writes' = Record(h_writes \cup
                    {[kind |-> "delete", id |-> req[t].post_id, user_id |-> req[t].user,
                      at |-> now, hidden |-> 0, raced |-> Raced(req[t].user)]}, h_writes)
       ELSE /\ req' = [req EXCEPT ![t] = Done(req[t], ServerError)]
            /\ UNCHANGED <<posts, h_writes>>
    /\ UNCHANGED <<users, nextPostId, cache, now, h_on, h_entry, h_req>>

(***************************************************************************)
(* The clock.                                                              *)
(***************************************************************************)
Tick(d) ==
    /\ now + d <= MaxTime
    /\ now' = now + d
    /\ UNCHANGED <<users, posts, nextPostId, cache, req, hist>>

(***************************************************************************)
(* Spec: every endpoint, on an empty database, one request at a time.      *)
(***************************************************************************)
Next ==
    \/ \E e \in Emails, p \in Passwords : signup("w1", e, p)
    \/ \E k \in TokenValues, s \in Salts : signup_commit("w1", k, s)
    \/ \E e \in Emails, p \in Passwords : login("w1", e, p)
    \/ \E k \in PresentedTokens, x \in Texts : add_post("w1", k, x)
    \/ add_commit("w1")
    \/ \E k \in PresentedTokens : get_posts("w1", k)
    \/ get_contains("w1")
    \/ get_getitem("w1")
    \/ get_query("w1")
    \/ get_setitem("w1")
    \/ \E i \in 1..MaxPosts, k \in PresentedTokens : delete_post("w1", i, k)
    \/ delete_query("w1")
    \/ delete_commit("w1")
    \/ \E d \in TickSteps : Tick(d)

Spec == Init /\ [][Next]_vars

(***************************************************************************)
(* SpecPosts: the protected endpoints served concurrently by both worker   *)
(* threads.  The service starts on a database that already holds two       *)
(* accounts: the database outlives the process, the cache does not.        *)
(***************************************************************************)
Account(id, email, token) ==
    [id |-> id, email |-> email,
     password |-> hash_password("secret1", "s1"), token |-> token]

InitPosts ==
    /\ users = <<Account(1, "a@x.io", "t1"), Account(2, "b@x.io", "t2")>>
    /\ posts = <<>>
    /\ nextPostId = 1
    /\ cache = <<>>
    /\ now = ImportTime
    /\ req = [t \in Threads |-> Idle]
    /\ h_on = FALSE
    /\ h_writes = {}
    /\ h_entry = [k \in PresentedTokens |-> 0]
    /\ h_req = [t \in Threads |-> NoStamp]

PostTokens == {"t1", "t2", ""}

NextPosts ==
    \/ \E t \in Threads, k \in PostTokens, x \in Texts : add_post(t, k, x)
    \/ \E t \in Threads : add_commit(t)
    \/ \E t \in Threads, k \in {"t1", "t2"} : get_posts(t, k)
    \/ \E t \in Threads : get_contains(t)
    \/ \E t \in Threads : get_getitem(t)
    \/ \E t \in Threads : get_query(t)
    \/ \E t \in Threads : get_setitem(t)
    \/ \E t \in Threads, i \in 1..MaxPosts, k \in {"t1", "t2"} : delete_post(t, i, k)
    \/ \E t \in Threads : delete_query(t)
    \/ \E t \in Threads : delete_commit(t)
    \/ \E d \in TickSteps : Tick(d)

SpecPosts == InitPosts /\ [][NextPosts]_vars

(***************************************************************************)
(* SpecStale: SpecPosts with the history recorded, to follow one post      *)
(* through the cache: the same threads and accounts, the first account     *)
(* writes, both list, and a single post is created.                        *)
(***************************************************************************)
InitStale ==
    /\ users = <<Account(1, "a@x.io", "t1"), Account(2, "b@x.io", "t2")>>
    /\ posts = <<>>
    /\ nextPostId = 1
    /\ cache = <<>>
    /\ now = ImportTime
    /\ req = [t \in Threads |-> Idle]
    /\ h_on = TRUE
    /\ h_writes = {}
    /\ h_entry = [k \in PresentedTokens |-> 0]
    /\ h_req = [t \in Threads |-> NoStamp]

\* add_post, for the one post this specification follows.
add_single_post(t, token, text) ==
    /\ nextPostId = 1
    /\ \A u \in Threads : req[u].pc # "add_commit"
    /\ add_post(t, token, text)

NextStale ==
    \/ \E t \in Threads, x \in Texts : add_single_post(t, "t1", x)
    \/ \E t \in Threads : add_commit(t)
    \/ \E t \in Threads, k \in {"t1", "t2"} : get_posts(t, k)
    \/ \E t \in Threads : get_contains(t)
    \/ \E t \in Threads : get_getitem(t)
    \/ \E t \in Threads : get_query(t)
    \/ \E t \in Threads : get_setitem(t)
    \/ \E t \in Threads : delete_post(t, 1, "t1")
    \/ \E t \in Threads : delete_query(t)
    \/ \E t \in Threads : delete_commit(t)
    \/ \E d \in TickSteps : Tick(d)

SpecStale == InitStale /\ [][NextStale]_vars

(***************************************************************************)
(* SpecEvict: listings of three accounts served concurrently by both       *)
(* worker threads, so that the cache fills and overflows; the first        *)
(* account also creates a post.                                            *)
(***************************************************************************)
InitEvict ==
    /\ users = <<Account(1, "a@x.io", "t1"), Account(2, "b@x.io", "t2"),
                 Account(3, "c@x.io", "t3")>>
    /\ posts = <<>>
    /\ nextPostId = 1
    /\ cache = <<>>
    /\ now = ImportTime
    /\ req = [t \in Threads |-> Idle]
    /\ h_on = FALSE
    /\ h_writes = {}
    /\ h_entry = [k \in PresentedTokens |-> 0]
    /\ h_req = [t \in Threads |-> NoStamp]

NextEvict ==
    \/ \E t \in Threads, x \in Texts : add_post(t, "t1", x)
    \/ \E t \in Threads : add_commit(t)
    \/ \E t \in Threads, k \in {"t1", "t2", "t3"} : get_posts(t, k)
    \/ \E t \in Threads : get_contains(t)
    \/ \E t \in Threads : get_getitem(t)
    \/ \E t \in Threads : get_query(t)
    \/ \E t \in Threads : get_setitem(t)
    \/ \E d \in TickSteps : Tick(d)

SpecEvict == InitEvict /\ [][NextEvict]_vars

(***************************************************************************)
(* SpecSignup: signup and login served concurrently by both worker         *)
(* threads, on an empty database.                                          *)
(***************************************************************************)
NextSignup ==
    \/ \E t \in Threads, e \in Emails, p \in Passwords : signup(t, e, p)
    \/ \E t \in Threads, k \in TokenValues, s \in Salts : signup_commit(t, k, s)
    \/ \E t \in Threads, e \in Emails, p \in Passwords : login(t, e, p)

SpecSignup == Init /\ [][NextSignup]_vars

(***************************************************************************)
(* Steps of the requests, as seen from outside the handlers.               *)
(***************************************************************************)
\* Thread t takes a step of the handler of one of the endpoints in ops.
StepOf(t, ops) == req'[t] # req[t] /\ req'[t].op \in ops

\* A request for one of the endpoints in ops arrives at thread t.
Arrives(t, ops) == Free(t) /\ StepOf(t, ops)

\* Thread t answers a listing with a post sequence.
GetReturns(t) ==
    /\ req[t].pc \in {"get_getitem", "get_setitem"}
    /\ req'[t].pc = "done"
    /\ req'[t].resp.status = 200

Protected == {"add_post", "get_posts", "delete_post"}

\* The sequence s holds exactly the posts of the store owned by user, each once.
IsListingOf(s, user) ==
    /\ \A i \in 1..Len(s) : s[i] \in Range(posts) /\ s[i].user_id = user
    /\ \A p \in Range(posts) : p.user_id = user => p \in Range(s)
    /\ \A i, j \in 1..Len(s) : i # j => s[i] # s[j]

(***************************************************************************)
(* C1.  No step of add_post or of delete_post, succeeding or failing,      *)
(* changes the cache: its keys, the cached sequences, the expiry times     *)
(* (and the order of the entries) are the same after the step as before.   *)
(***************************************************************************)
C1_WritesLeaveCache ==
    [][\A t \in Threads : StepOf(t, {"add_post", "delete_post"}) => cache' = cache]_vars

\* A post has been created while the entry of its account was resident, and
\* the entry still holds the sequence without it.
C1_Witness ==
    \E t \in Threads :
        /\ req[t].pc = "done" /\ req[t].op = "add_post" /\ req[t].resp.status = 200
        /\ req[t].resp.postID \in PostIds(posts)
        /\ req[t].token \in CacheKeys(cache)
        /\ req[t].resp.postID \notin PostIds(CacheEntry(cache, req[t].token).value)

(***************************************************************************)
(* C2, as claimed.  Once a listing has populated the entry of token t and  *)
(* the account has then created a post, no listing of t that arrives       *)
(* after the create and is answered before that entry's expiry time        *)
(* contains the post.                                                      *)
(***************************************************************************)
C2_StaleWithinWindow ==
    [][\A t \in Threads : GetReturns(t) =>
          \A w \in Creates(req[t].user) :
              (w.id < h_req[t].seen /\ now < w.hidden)
                  => w.id \notin PostIds(req'[t].resp.posts)]_vars

(***************************************************************************)
(* C2, amended.  A listing answered from the cache returns the entry's     *)
(* sequence as it was put, so a listing answered from an entry that was    *)
(* put before a post of the account was created does not contain that      *)
(* post.                                                                   *)
(***************************************************************************)
C2_HitServesEntry ==
    [][\A t \in Threads :
          (req[t].pc = "get_getitem" /\ GetReturns(t)) =>
              /\ req'[t].resp.posts = CacheEntry(cache, req[t].token).value
              /\ \A w \in Creates(req[t].user) :
                    h_entry[req[t].token] <= w.id
                        => w.id \notin PostIds(req'[t].resp.posts)]_vars

\* A listing was answered from an entry put before a post of its account
\* was created; the post is in the store and not in the answer.
C2_Witness ==
    \E t \in Threads :
        /\ req[t].pc = "done" /\ req[t].op = "get_posts" /\ req[t].resp.status = 200
        /\ h_req[t].how = "hit" /\ h_req[t].stale
        /\ \E p \in Range(posts) :
              /\ p.user_id = get_user_by_token(req[t].token)
              /\ p.id \notin PostIds(req[t].resp.posts)

(***************************************************************************)
(* C3, as claimed.  Every listing of t that arrives at least ttl after a   *)
(* create or delete of the account was committed shows that write.         *)
(***************************************************************************)
C3_StalenessBounded ==
    [][\A t \in Threads : GetReturns(t) =>
          \A w \in OldWrites(req[t].user, h_req[t].start) :
              Reflected(w, req'[t].resp.posts)]_vars

(***************************************************************************)
(* C3, amended.  Every listing of t that arrives at least ttl after a      *)
(* create or delete of the account was committed shows that write,         *)
(* provided no listing of the account was between its store query and its  *)
(* cache put when the write was committed.                                 *)
(***************************************************************************)
C3_StalenessBoundedUnlessRaced ==
    [][\A t \in Threads : GetReturns(t) =>
          \A w \in OldWrites(req[t].user, h_req[t].start) :
              ~w.raced => Reflected(w, req'[t].resp.posts)]_vars

\* A listing that arrived at least ttl after an unraced create of its
\* account has been answered, after the entry put before the create lapsed.
C3_Witness ==
    \E t \in Threads :
        /\ req[t].pc = "done" /\ req[t].op = "get_posts" /\ req[t].resp.status = 200
        /\ h_req[t].old
        /\ \E w \in h_writes : w.kind = "create" /\ ~w.raced /\ w.hidden > 0
                                 /\ w.id \in PostIds(req[t].resp.posts)

(***************************************************************************)
(* C4.  On a miss the store query yields exactly the posts of the store    *)
(* that the account of t owns, each once, and the put writes that very     *)
(* sequence into the cache under t and returns it.                         *)
(***************************************************************************)
C4_MissReadsStore ==
    [][\A t \in Threads :
          /\ (req[t].pc = "get_query" /\ req'[t].pc = "get_setitem")
                => IsListingOf(req'[t].posts, req[t].user)
          /\ (req[t].pc = "get_setitem" /\ req'[t].pc = "done")
                => /\ req'[t].resp.status = 200
                   /\ req'[t].resp.posts = req[t].posts
                   /\ req[t].token \in CacheKeys(cache')
                   /\ CacheEntry(cache', req[t].token).value = req[t].posts]_vars

\* A miss has returned the sequence holding the post with text "hello"
\* that the store holds, and the entry put for the token holds it too.
C4_Witness ==
    \E t \in Threads :
        /\ req[t].pc = "done" /\ req[t].op = "get_posts" /\ h_req[t].how = "miss"
        /\ \E i \in 1..Len(req[t].resp.posts) : req[t].resp.posts[i].text = "hello"
        /\ req[t].token \in CacheKeys(cache)
        /\ CacheEntry(cache, req[t].token).value = req[t].resp.posts
        /\ req[t].resp.posts = posts

(***************************************************************************)
(* C5, as claimed.  A listing that passed the token gate is never          *)
(* answered with an error.                                                 *)
(***************************************************************************)
C5_ListingNeverFails ==
    \A t \in Threads :
        (req[t].pc = "done" /\ req[t].op = "get_posts")
            => req[t].resp.status \in {200, 401}

C7_BadTokenRejected ==
    [][\A t \in Threads :
          (Arrives(t, Protected)
             /\ \A i \in 1..Len(users) : users[i].token # req'[t].token)
          => /\ req'[t].pc = "done"
             /\ req'[t].resp = [status |-> 401, detail |-> "Invalid or missing token",
                                token |-> "", postID |-> 0, posts |-> <<>>]
             /\ users' = users /\ posts' = posts /\ nextPostId' = nextPostId
             /\ cache' = cache]_vars

\* The empty token has been rejected while the cache holds the entry of an
\* account's token and the store holds posts.
C7_Witness ==
    /\ req["w1"].pc = "done" /\ req["w1"].op \in Protected
    /\ req["w1"].token = "" /\ req["w1"].resp.status = 401
    /\ cache # <<>> /\ posts # <<>>

(***************************************************************************)
(* C8.  A deletion whose post id exists but belongs to another account is  *)
(* answered 404 "Post not found", exactly as for an id that does not       *)
(* exist, and leaves the posts table unchanged.                            *)
(***************************************************************************)
C8_DeleteNotOwned ==
    [][\A t \in Threads :
          (req[t].pc = "delete_query" /\ req'[t] # req[t]
             /\ \A i \in 1..Len(posts) :
                   posts[i].id = req[t].post_id => posts[i].user_id # req[t].user)
          => /\ req'[t].pc = "done"
             /\ req'[t].resp = [status |-> 404, detail |-> "Post not found",
                                token |-> "", postID |-> 0, posts |-> <<>>]
             /\ posts' = posts]_vars

\* A deletion found its post id in the store, answered 404, and the post
\* is still there, owned by the other account.
C8_Witness ==
    \E t \in Threads :
        /\ req[t].pc = "done" /\ req[t].op = "delete_post"
        /\ req[t].resp.status = 404 /\ h_req[t].how = "found"
        /\ \E p \in Range(posts) :
              /\ p.id = req[t].post_id
              /\ p.user_id # get_user_by_token(req[t].token)
              /\ p.text = "hello"

(***************************************************************************)
(* C9.  A signup with an email that is registered is answered 400 "Email   *)
(* already registered" and leaves the users table as it is: the account    *)
(* keeps its password digest and its token, and a login with its           *)
(* credentials after the rejection returns that token.                     *)
(***************************************************************************)
C9_DuplicateSignup ==
    [][\A t \in Threads :
          /\ (Arrives(t, {"signup"})
                /\ \E i \in 1..Len(users) : users[i].email = req'[t].email)
             => /\ req'[t].pc = "done"
                /\ req'[t].resp = [status |-> 400, detail |-> "Email already registered",
                                   token |-> "", postID |-> 0, posts |-> <<>>]
                /\ users' = users
          /\ (Arrives(t, {"login"}) /\ req[t].op = "signup" /\ req[t].resp.status = 400)
             => \A i \in 1..Len(users) :
                   (users[i].email = req'[t].email
                      /\ verify_password(req'[t].password, users[i].password))
                   => /\ req'[t].resp.status = 200
                      /\ req'[t].resp.token = users[i].token]_vars

\* A second signup with a registered email, under another password, has
\* been rejected, and the account still verifies its first password only.
C9_Witness ==
    /\ req["w1"].pc = "done" /\ req["w1"].op = "signup"
    /\ req["w1"].resp.status = 400
    /\ \E i \in 1..Len(users) :
          /\ users[i].email = req["w1"].email
          /\ users[i].password.digest[3] # req["w1"].password

(***************************************************************************)
(* C10.  No step changes a row of the users table; a successful signup     *)
(* returns the token of the row it inserts; a login with the email of an   *)
(* account and the password it signed up with returns that row's token.    *)
(***************************************************************************)
C10_TokenStable ==
    [][/\ Len(users') >= Len(users)
       /\ \A i \in 1..Len(users) : users'[i] = users[i]
       /\ \A t \in Threads :
             /\ (req[t].pc = "signup_commit" /\ req'[t].resp.status = 200)
                   => /\ Len(users') = Len(users) + 1
                      /\ users'[Len(users')].email = req[t].email
                      /\ users'[Len(users')].token = req'[t].resp.token
             /\ Arrives(t, {"login"})
                   => \A i \in 1..Len(users) :
                         (users[i].email = req'[t].email
                            /\ users[i].password.digest[3] = req'[t].password)
                         => /\ req'[t].resp.status = 200
                            /\ req'[t].resp.token = users[i].token]_vars

\* The second account has logged in and got its token, after posts were
\* created and listed.
C10_Witness ==
    /\ req["w1"].pc = "done" /\ req["w1"].op = "login"
    /\ req["w1"].resp.status = 200
    /\ Len(users) = 2 /\ req["w1"].resp.token = users[2].token
    /\ req["w1"].email = users[2].email
    /\ posts # <<>> /\ cache # <<>>

(***************************************************************************)
(* C11.  A login with a registered email and a wrong password and a login  *)
(* with an email that is not registered are answered with one and the      *)
(* same response, 400 "Invalid credentials", and neither changes the       *)
(* users, the posts or the cache.                                          *)
(***************************************************************************)
C11_LoginFailuresAlike ==
    [][\A t \in Threads :
          (Arrives(t, {"login"})
             /\ \/ \A i \in 1..Len(users) : users[i].email # req'[t].email
                \/ \E i \in 1..Len(users) :
                      /\ users[i].email = req'[t].email
                      /\ ~verify_password(req'[t].password, users[i].password))
          => /\ req'[t].pc = "done"
             /\ req'[t].resp = [status |-> 400, detail |-> "Invalid credentials",
                                token |-> "", postID |-> 0, posts |-> <<>>]
             /\ users' = users /\ posts' = posts /\ nextPostId' = nextPostId
             /\ cache' = cache]_vars

\* A login with the email of an account and a password that is not its
\* password has been refused, while the other email is still unregistered.
C11_Witness ==
    /\ req["w1"].pc = "done" /\ req["w1"].op = "login"
    /\ req["w1"].resp.status = 400
    /\ Len(users) = 1 /\ users[1].email = req["w1"].email
    /\ ~verify_password(req["w1"].password, users[1].password)

\* The account owns no post in the store.
OwnsNoPost(user) == \A p \in Range(posts) : p.user_id # user

(***************************************************************************)
(* C12, as claimed.  A listing answered while the account of its token     *)
(* owns no post in the store returns the empty sequence.                   *)
(***************************************************************************)
C12_EmptyWhenNoPosts ==
    [][\A t \in Threads :
          (GetReturns(t) /\ OwnsNoPost(req[t].user))
          => req'[t].resp.posts = <<>>]_vars

(***************************************************************************)
(* C12, amended.  A listing answered while the account of its token owns   *)
(* no post returns the empty sequence if the account has deleted no post;  *)
(* and whatever was deleted before, a listing whose store query runs       *)
(* while the account owns no post returns the empty sequence.              *)
(***************************************************************************)
C12_EmptyUnlessDeleted ==
    [][\A t \in Threads :
          /\ (GetReturns(t) /\ OwnsNoPost(req[t].user)
                /\ \A w \in h_writes : ~(w.kind = "delete" /\ w.user_id = req[t].user))
             => req'[t].resp.posts = <<>>
          /\ (req[t].pc = "get_query" /\ req'[t].pc = "get_setitem"
                /\ OwnsNoPost(req[t].user))
             => req'[t].posts = <<>>
          /\ (req[t].pc = "get_setitem" /\ req'[t].pc = "done")
             => req'[t].resp.posts = req[t].posts]_vars

\* The account has deleted its post, and a listing that then went to the
\* store has returned the empty sequence.
C12_Witness ==
    \E t \in Threads :
        /\ req[t].pc = "done" /\ req[t].op = "get_posts" /\ req[t].resp.status = 200
        /\ h_req[t].how = "miss" /\ req[t].resp.posts = <<>>
        /\ \E w \in h_writes :
              /\ w.kind = "delete"
              /\ w.user_id = get_user_by_token(req[t].token)
              /\ w.at + ttl <= now

(***************************************************************************)
(* C13.  A listing returns a cached sequence only from an entry that is    *)
(* present with now < expires at the read; a listing whose membership      *)
(* test finds the entry of its token present but expired goes to the       *)
(* store, and its put leaves one entry for the token, holding the queried  *)
(* sequence and expiring ttl after the put.                                *)
(***************************************************************************)
C13_NeverServesExpired ==
    [][\A t \in Threads :
          /\ (req[t].pc = "get_getitem" /\ GetReturns(t))
             => /\ req[t].token \in CacheKeys(cache)
                /\ now < CacheEntry(cache, req[t].token).expires
                /\ req'[t].resp.posts = CacheEntry(cache, req[t].token).value
          /\ (req[t].pc = "get_contains" /\ req'[t] # req[t]
                /\ req[t].token \in CacheKeys(cache)
                /\ now >= CacheEntry(cache, req[t].token).expires)
             => req'[t].pc = "get_query"
          /\ (req[t].pc = "get_setitem" /\ req'[t].pc = "done")
             => /\ Cardinality({i \in 1..Len(cache') : cache'[i].key = req[t].token}) = 1
                /\ CacheEntry(cache', req[t].token).value = req[t].posts
                /\ CacheEntry(cache', req[t].token).expires = now + ttl]_vars

\* A listing found the entry of its token expired, has queried the store
\* and is about to overwrite the entry, which is still resident.
C13_Witness ==
    \E t \in Threads :
        /\ req[t].pc = "get_setitem"
        /\ req[t].token \in CacheKeys(cache)
        /\ now >= CacheEntry(cache, req[t].token).expires

\* The entries of the cache, without their order of use.
CacheEntries(c) == Range(c)

(***************************************************************************)
(* C14, as claimed.  An entry put at time T expires at T + ttl, and a      *)
(* listing answered from the cache leaves the cache as it was.             *)
(***************************************************************************)
C14_HitLeavesCache ==
    [][\A t \in Threads :
          /\ (req[t].pc = "get_setitem" /\ req'[t].pc = "done")
             => CacheEntry(cache', req[t].token).expires = now + ttl
          /\ (req[t].pc = "get_getitem" /\ GetReturns(t))
             => cache' = cache]_vars

(***************************************************************************)
(* C14, amended.  An entry put at time T expires at T + ttl, and a listing *)
(* answered from the cache leaves the keys, the cached sequences and the   *)
(* expiry times as they were: it changes nothing but the order of use, in  *)
(* which the entry read becomes the most recently used one.                *)
(***************************************************************************)
C14_HitKeepsEntries ==
    [][\A t \in Threads :
          /\ (req[t].pc = "get_setitem" /\ req'[t].pc = "done")
             => CacheEntry(cache', req[t].token).expires = now + ttl
          /\ (req[t].pc = "get_getitem" /\ GetReturns(t))
             => /\ CacheEntries(cache') = CacheEntries(cache)
                /\ Len(cache') = Len(cache)
                /\ cache'[Len(cache')].key = req[t].token]_vars

\* A listing was answered from an entry at its last second of life, put
\* before the clock moved, while the cache holds another entry put later
\* and the entry read is the most recently used one.
C14_Witness ==
    \E t \in Threads :
        /\ req[t].pc = "done" /\ req[t].op = "get_posts" /\ h_req[t].how = "hit"
        /\ Len(cache) = 2
        /\ cache[2].key = req[t].token
        /\ cache[2].expires = ImportTime + ttl
        /\ cache[1].expires > cache[2].expires
        /\ now > ImportTime

(***************************************************************************)
(* C15.  No two rows of the users table hold the same token, every row     *)
(* holds a token of the generator (never none, never empty), and a         *)
(* successful signup returns a token that no other row holds.              *)
(***************************************************************************)
C15_TokenPerAccount ==
    /\ \A i, j \in 1..Len(users) : users[i].token = users[j].token => i = j
    /\ \A i \in 1..Len(users) : users[i].token \in TokenValues /\ users[i].id = i
    /\ \A t \in Threads :
          (req[t].pc = "done" /\ req[t].op = "signup" /\ req[t].resp.status = 200)
          => Cardinality({i \in 1..Len(users) : users[i].token = req[t].resp.token}) = 1

\* A signup with an unregistered email drew the token of the existing
\* account: its commit failed and the table still holds that one account.
C15_Witness ==
    /\ req["w1"].pc = "done" /\ req["w1"].op = "signup"
    /\ req["w1"].resp.status = 500
    /\ Len(users) = 1 /\ users[1].email # req["w1"].email

(***************************************************************************)
(* C16, as claimed.  No two rows of the users table hold the same email,   *)
(* and a signup that passed the lookup of its email and finds the email    *)
(* registered when it commits is answered 400 "Email already registered"   *)
(* and leaves the table as it is.                                          *)
(***************************************************************************)
C16_RaceLoserGetsConflict ==
    [][/\ \A i, j \in 1..Len(users') : users'[i].email = users'[j].email => i = j
       /\ \A t \in Threads :
             (req[t].pc = "signup_commit" /\ req'[t].pc = "done"
                /\ \E i \in 1..Len(users) : users[i].email = req[t].email)
             => /\ req'[t].resp = [status |-> 400, detail |-> "Email already registered",
                                   token |-> "", postID |-> 0, posts |-> <<>>]
                /\ users' = users]_vars

(***************************************************************************)
(* C17, as claimed.  The post that add_post commits carries the clock      *)
(* time of the commit as its created_at, so created_at never decreases     *)
(* along the posts table.                                                  *)
(***************************************************************************)
C17_CreatedAtIsNow ==
    [][\A t \in Threads :
          (req[t].pc = "add_commit" /\ req'[t].pc = "done")
          => /\ Len(posts') = Len(posts) + 1
             /\ posts'[Len(posts')].created_at = now
             /\ \A i \in 1..Len(posts) :
                   posts[i].created_at <= posts'[Len(posts')].created_at]_vars

(***************************************************************************)
(* C18.  When the cache holds maxsize entries, none of them expired, and   *)
(* a listing that missed puts the sequence it queried under a token that   *)
(* is not resident, then afterwards the token is resident with that        *)
(* sequence, expiring ttl later, the cache again holds maxsize entries,    *)
(* exactly one token that was resident is gone and every other entry is    *)
(* as it was.                                                              *)
(***************************************************************************)
C18_EvictsExactlyOne ==
    [][\A t \in Threads :
          (req[t].pc = "get_setitem" /\ req'[t].pc = "done"
             /\ Len(cache) = maxsize
             /\ \A i \in 1..Len(cache) : now < cache[i].expires
             /\ req[t].token \notin CacheKeys(cache))
          => /\ req[t].token \in CacheKeys(cache')
             /\ CacheEntry(cache', req[t].token) =
                    [key |-> req[t].token, value |-> req[t].posts, expires |-> now + ttl]
             /\ Len(cache') = maxsize
             /\ Cardinality(CacheKeys(cache')) = maxsize
             /\ Cardinality(CacheKeys(cache) \ CacheKeys(cache')) = 1
             /\ \A e \in Range(cache) : e.key \in CacheKeys(cache') => e \in Range(cache')]_vars

\* Before any entry could expire, a listing that missed has put its entry
\* into the full cache as the newest one, and the token another listing
\* was answered for is no longer resident while the third token still is.
C18_Witness ==
    \E t, u \in Threads :
        /\ t # u /\ now < ImportTime + ttl
        /\ Len(cache) = maxsize
        /\ req[t].pc = "done" /\ req[t].op = "get_posts" /\ h_req[t].how = "miss"
        /\ cache[Len(cache)].key = req[t].token
        /\ req[u].pc = "done" /\ req[u].op = "get_posts" /\ req[u].resp.status = 200
        /\ req[u].token \notin CacheKeys(cache)
        /\ \E k \in CacheKeys(cache) : k # req[t].token

(***************************************************************************)
(* C19.  Every post in the cache entry of a token is owned by the account  *)
(* of that token, and every sequence a listing has returned holds only     *)
(* posts owned by the account of the token it was called with.             *)
(***************************************************************************)
C19_NoLeakThroughCache ==
    /\ \A i \in 1..Len(cache) :
          /\ get_user_by_token(cache[i].key) # NoUser
          /\ \A j \in 1..Len(cache[i].value) :
                cache[i].value[j].user_id = get_user_by_token(cache[i].key)
    /\ \A t \in Threads :
          (req[t].pc = "done" /\ req[t].op = "get_posts")
          => \A j \in 1..Len(req[t].resp.posts) :
                req[t].resp.posts[j].user_id = get_user_by_token(req[t].token)

\* The entries of both accounts are resident, one of them holding a post,
\* and a listing of the account that owns no post was answered from the
\* cache with the empty sequence although the store holds the post.
C19_Witness ==
    \E t \in Threads :
        /\ Len(cache) = 2 /\ posts # <<>>
        /\ \E i \in 1..Len(cache) : cache[i].value # <<>>
        /\ req[t].pc = "done" /\ req[t].op = "get_posts" /\ h_req[t].how = "hit"
        /\ req[t].resp.status = 200 /\ req[t].resp.posts = <<>>
        /\ OwnsNoPost(get_user_by_token(req[t].token))

\* The posts of the store owned by user, in id order, at this instant.
Snapshot(user) == SelectSeq(posts, LAMBDA p : p.user_id = user)

=============================================================================
